---- MODULE Spec2Model ----
(***************************************************************************)
(* pngme: the validated chunk-type code (src/src/chunk_type.rs), the       *)
(* length-prefixed, CRC-protected chunk record (src/src/chunk.rs) and the  *)
(* chunk container used by src/src/lib.rs.                                 *)
(*                                                                         *)
(* Bytes are naturals 0..255.  A String / &str is the sequence of its      *)
(* UTF-8 bytes.  TLC's integers are 32-bit signed, so a u32 is held as the *)
(* pair <<hi, lo>> of its 16-bit halves (value hi * 65536 + lo).           *)
(* A Result is [ok |-> TRUE, val |-> v] or [ok |-> FALSE, err |-> e].      *)
(***************************************************************************)
EXTENDS Integers, Sequences, FiniteSets, TLC

VARIABLES
    t_in,     \* chunk_type.rs: the input handed to a ChunkType constructor
    t_via,    \* chunk_type.rs: which constructor ran ("none" before any)
    t_res,    \* chunk_type.rs: the Result<ChunkType> it returned
    t_flags,  \* chunk_type.rs: the answers of the five property queries
    pc,       \* chunk.rs: "start" | "built" | "wire" | "parsed"
    chunk,    \* chunk.rs: the Chunk built by Chunk::new
    bytes,    \* chunk.rs: the byte buffer handed to Chunk::try_from
    edit,     \* chunk.rs: how the buffer was derived from chunk.as_bytes()
    parsed,   \* chunk.rs: the Result<Chunk> of Chunk::try_from(bytes)
    chunks,   \* png: the container's ordered records
    last,     \* png: the last container operation, with the records before it
    scen      \* png: the operations of an append, lookup, remove, lookup sequence so far

vars == <<t_in, t_via, t_res, t_flags, pc, chunk, bytes, edit, parsed,
          chunks, last, scen>>

t_vars == <<t_in, t_via, t_res, t_flags>>
c_vars == <<pc, chunk, bytes, edit, parsed>>
p_vars == <<chunks, last, scen>>

None == [none |-> TRUE]

Ok(v) == [ok |-> TRUE, val |-> v]
Err(e) == [ok |-> FALSE, err |-> e]

\* ------------------------------------------------------------------ bounds

\* Longest input handed to a ChunkType constructor.
MaxTypeLen == 5
\* Longest payload whose serialized form is edited (bit flips, truncation).
MaxData == 2
\* Most records a container holds.
MaxChunks == 3

\* ------------------------------------------------------------ bit helpers

RECURSIVE BitAnd(_, _)
BitAnd(a, b) ==
    IF a = 0 \/ b = 0 THEN 0
    ELSE (a % 2) * (b % 2) + 2 * BitAnd(a \div 2, b \div 2)

RECURSIVE BitXor(_, _)
BitXor(a, b) ==
    IF a = 0 THEN b
    ELSE IF b = 0 THEN a
    ELSE ((a + b) % 2) + 2 * BitXor(a \div 2, b \div 2)

RECURSIVE Pow2(_)
Pow2(k) == IF k = 0 THEN 1 ELSE 2 * Pow2(k - 1)

\* ---------------------------------------------------------------- u32

U32(n) == <<n \div 65536, n % 65536>>

U32Xor(x, y) == <<BitXor(x[1], y[1]), BitXor(x[2], y[2])>>

U32Shr1(x) == <<x[1] \div 2, (x[2] \div 2) + (x[1] % 2) * 32768>>

U32Shr8(x) == <<x[1] \div 256, (x[2] \div 256) + (x[1] % 256) * 256>>

\* u32::to_be_bytes: most significant byte first.
to_be_bytes(x) == <<x[1] \div 256, x[1] % 256, x[2] \div 256, x[2] % 256>>

\* u32::from_le_bytes
from_le_bytes(b) == <<b[4] * 256 + b[3], b[2] * 256 + b[1]>>

\* u32::from_be_bytes
from_be_bytes(b) == <<b[1] * 256 + b[2], b[3] * 256 + b[4]>>

\* `length as usize` compared with a byte count n of the model's size.
U32Le(x, n) == x[1] = 0 /\ x[2] <= n

\* ------------------------------------------------------- str::from_utf8

IsCont(b) == b >= 128 /\ b <= 191

\* Number of bytes of the well-formed UTF-8 scalar value that starts s, 0 if none.
Utf8Width(s) ==
    LET n == Len(s)
        b == s[1]
    IN  IF b < 128 THEN 1
        ELSE IF b >= 194 /\ b <= 223
            THEN IF n >= 2 /\ IsCont(s[2]) THEN 2 ELSE 0
        ELSE IF b >= 224 /\ b <= 239
            THEN IF n >= 3 /\ IsCont(s[2]) /\ IsCont(s[3])
                    /\ (b = 224 => s[2] >= 160)
                    /\ (b = 237 => s[2] <= 159)
                 THEN 3 ELSE 0
        ELSE IF b >= 240 /\ b <= 244
            THEN IF n >= 4 /\ IsCont(s[2]) /\ IsCont(s[3]) /\ IsCont(s[4])
                    /\ (b = 240 => s[2] >= 144)
                    /\ (b = 244 => s[2] <= 143)
                 THEN 4 ELSE 0
        ELSE 0

RECURSIVE from_utf8_ok(_)
from_utf8_ok(s) ==
    IF s = <<>> THEN TRUE
    ELSE LET w == Utf8Width(s)
         IN  w > 0 /\ from_utf8_ok(SubSeq(s, w + 1, Len(s)))

\* str::chars: the scalar values of a valid UTF-8 string.
RECURSIVE chars(_)
chars(s) ==
    IF s = <<>> THEN <<>>
    ELSE LET w == Utf8Width(s)
             c == CASE w = 1 -> s[1]
                    [] w = 2 -> (s[1] - 192) * 64 + (s[2] - 128)
                    [] w = 3 -> (s[1] - 224) * 4096 + (s[2] - 128) * 64 + (s[3] - 128)
                    [] OTHER -> (s[1] - 240) * 262144 + (s[2] - 128) * 4096
                                + (s[3] - 128) * 64 + (s[4] - 128)
         IN  <<c>> \o chars(SubSeq(s, w + 1, Len(s)))

is_ascii_alphabetic(c) == (c >= 65 /\ c <= 90) \/ (c >= 97 /\ c <= 122)

\* ------------------------------------------------------------ ChunkType
\* A ChunkType(String) is held as the byte sequence of its string.

\* build with is_ascii_alphanumeric in place of is_ascii_alphabetic.
build_alphanumeric(chunk_type) ==
    IF Len(chunk_type) = 4
       /\ \A i \in 1..Len(chars(chunk_type)) :
             \/ is_ascii_alphabetic(chars(chunk_type)[i])
             \/ (chars(chunk_type)[i] >= 48 /\ chars(chunk_type)[i] <= 57)
    THEN Ok(chunk_type)
    ELSE Err("invalid chunk type")

build(chunk_type) ==
    IF Len(chunk_type) = 4
       /\ \A i \in 1..Len(chars(chunk_type)) : is_ascii_alphabetic(chars(chunk_type)[i])
    THEN Ok(chunk_type)
    ELSE Err("invalid chunk type")

ChunkType_from_str(s) == build(s)

ChunkType_try_from(value) ==
    IF ~from_utf8_ok(value) THEN Err("Utf8Error")
    ELSE ChunkType_from_str(value)

ChunkType_bytes(ct) == <<ct[1], ct[2], ct[3], ct[4]>>

fifth_bit_is_zero(byte) == BitAnd(byte, 32) = 0

is_critical(ct) == fifth_bit_is_zero(ct[1])

is_public(ct) == fifth_bit_is_zero(ct[2])

is_reserved_bit_valid(ct) == fifth_bit_is_zero(ct[3])

\* is_safe_to_copy without the negation.
is_safe_to_copy_same_polarity(ct) == fifth_bit_is_zero(ct[4])

is_safe_to_copy(ct) == ~fifth_bit_is_zero(ct[4])

is_valid(ct) == is_reserved_bit_valid(ct)

\* ------------------------------------------------- chunk-type state machine

\* '1', '@', 'A', 'z', '{' and the two bytes of U+00E9.
TypeBytes == {49, 64, 65, 122, 123, 195, 169}

RECURSIVE SeqsUpTo(_, _)
SeqsUpTo(S, n) ==
    IF n = 0 THEN {<<>>}
    ELSE LET shorter == SeqsUpTo(S, n - 1)
         IN  shorter \cup {Append(s, b) : s \in {x \in shorter : Len(x) = n - 1}, b \in S}

TypeInputs == SeqsUpTo(TypeBytes, MaxTypeLen)

ChunkIdle ==
    /\ pc = "start"
    /\ chunk = None
    /\ bytes = <<>>
    /\ edit = None
    /\ parsed = None

PngIdle ==
    /\ chunks = <<>>
    /\ last = None
    /\ scen = <<>>

InitType ==
    /\ t_in \in TypeInputs
    /\ t_via = "none"
    /\ t_res = None
    /\ t_flags = None
    /\ ChunkIdle
    /\ PngIdle

\* impl TryFrom<[u8; 4]>: the argument is an array of exactly four bytes.
TypeTryFrom ==
    /\ t_via = "none"
    /\ Len(t_in) = 4
    /\ t_via' = "try_from"
    /\ t_res' = ChunkType_try_from(t_in)
    /\ UNCHANGED <<t_in, t_flags, c_vars, p_vars>>

\* impl FromStr: the argument is a &str, valid UTF-8 of any length.
TypeFromStr ==
    /\ t_via = "none"
    /\ from_utf8_ok(t_in)
    /\ t_via' = "from_str"
    /\ t_res' = ChunkType_from_str(t_in)
    /\ UNCHANGED <<t_in, t_flags, c_vars, p_vars>>

TypeQuery ==
    /\ t_via # "none"
    /\ t_res.ok
    /\ t_flags = None
    /\ t_flags' = [bytes |-> ChunkType_bytes(t_res.val),
                   critical |-> is_critical(t_res.val),
                   public |-> is_public(t_res.val),
                   reserved_bit_valid |-> is_reserved_bit_valid(t_res.val),
                   safe_to_copy |-> is_safe_to_copy(t_res.val),
                   valid |-> is_valid(t_res.val)]
    /\ UNCHANGED <<t_in, t_via, t_res, c_vars, p_vars>>

NextType == TypeTryFrom \/ TypeFromStr \/ TypeQuery

SpecType == InitType /\ [][NextType]_vars

\* ---------------------------------------------------------------- Chunk

\* crc::CRC_32_ISO_HDLC: reflected polynomial 0xEDB88320, init and xorout 0xFFFFFFFF.
CrcPoly == <<60856, 33568>>
CrcOnes == <<65535, 65535>>

RECURSIVE CrcShift(_, _)
CrcShift(crc, k) ==
    IF k = 0 THEN crc
    ELSE CrcShift(IF crc[2] % 2 = 1 THEN U32Xor(U32Shr1(crc), CrcPoly) ELSE U32Shr1(crc),
                  k - 1)

\* The crate's lookup table: entry n is the register after the eight shifts of byte n.
CrcTable == [n \in 0..255 |-> CrcShift(<<0, n>>, 8)]

\* The register after bytes i.. of data.  The test on next makes TLC compute
\* each register before the following byte is taken.
RECURSIVE CrcUpdate(_, _, _)
CrcUpdate(crc, data, i) ==
    IF i > Len(data) THEN crc
    ELSE LET next == U32Xor(CrcTable[BitXor(crc[2] % 256, data[i])], U32Shr8(crc))
         IN  IF next[1] >= 0 THEN CrcUpdate(next, data, i + 1) ELSE next

\* CRC_HDLC.checksum
checksum(data) == U32Xor(CrcUpdate(CrcOnes, data, 1), CrcOnes)

\* Chunk::new with the checksum taken over the payload alone.
Chunk_new_data_only(chunk_type, data) ==
    [length |-> U32(Len(data)),
     chunk_type |-> chunk_type,
     data |-> data,
     crc |-> checksum(data)]

\* Chunk::new with the length taken from chained_data.
Chunk_new_chained_length(chunk_type, data) ==
    [length |-> U32(Len(ChunkType_bytes(chunk_type) \o data)),
     chunk_type |-> chunk_type,
     data |-> data,
     crc |-> checksum(ChunkType_bytes(chunk_type) \o data)]

Chunk_new(chunk_type, data) ==
    LET chained_data == ChunkType_bytes(chunk_type) \o data
    IN  [length |-> U32(Len(data)),
         chunk_type |-> chunk_type,
         data |-> data,
         crc |-> checksum(chained_data)]

\* Chunk::as_bytes with the checksum ahead of the payload.
as_bytes_crc_first(c) ==
    to_be_bytes(c.length) \o ChunkType_bytes(c.chunk_type)
        \o to_be_bytes(c.crc) \o c.data

as_bytes(c) ==
    to_be_bytes(c.length) \o ChunkType_bytes(c.chunk_type)
        \o c.data \o to_be_bytes(c.crc)

\* BufReader::read_exact of n bytes at offset off (0-based) succeeds iff they are there.
CanRead(value, off, n) == Len(value) - off >= n

\* impl TryFrom<&[u8]> for Chunk without the comparison of the two checksums.
Chunk_try_from_unchecked(value) ==
    IF ~CanRead(value, 0, 4) THEN Err("UnexpectedEof")
    ELSE IF ~CanRead(value, 4, 4) THEN Err("UnexpectedEof")
    ELSE LET length == from_be_bytes(SubSeq(value, 1, 4))
             chunk_type == ChunkType_try_from(SubSeq(value, 5, 8))
         IN  IF ~chunk_type.ok THEN chunk_type
             ELSE IF ~U32Le(length, Len(value) - 8) THEN Err("UnexpectedEof")
             ELSE IF ~CanRead(value, 8 + length[2], 4) THEN Err("UnexpectedEof")
             ELSE Ok(Chunk_new(chunk_type.val, SubSeq(value, 9, 8 + length[2])))

\* impl TryFrom<&[u8]> for Chunk with the type code validated after every read.
Chunk_try_from_late_type(value) ==
    IF ~CanRead(value, 0, 4) THEN Err("UnexpectedEof")
    ELSE IF ~CanRead(value, 4, 4) THEN Err("UnexpectedEof")
    ELSE LET length == from_be_bytes(SubSeq(value, 1, 4))
             chunk_type == ChunkType_try_from(SubSeq(value, 5, 8))
         IN  IF ~U32Le(length, Len(value) - 8) THEN Err("UnexpectedEof")
             ELSE IF ~CanRead(value, 8 + length[2], 4) THEN Err("UnexpectedEof")
             ELSE IF ~chunk_type.ok THEN chunk_type
             ELSE LET data == SubSeq(value, 9, 8 + length[2])
                      crc == from_be_bytes(SubSeq(value, 9 + length[2], 12 + length[2]))
                      c == Chunk_new(chunk_type.val, data)
                  IN  IF c.crc # crc THEN Err("invalid chunk CRC") ELSE Ok(c)

\* impl TryFrom<&[u8]> for Chunk.  The reads come in the order length, type
\* code, payload, checksum; `?` returns the first failure.
Chunk_try_from(value) ==
    IF ~CanRead(value, 0, 4) THEN Err("UnexpectedEof")
    ELSE IF ~CanRead(value, 4, 4) THEN Err("UnexpectedEof")
    ELSE LET length == from_be_bytes(SubSeq(value, 1, 4))
             chunk_type == ChunkType_try_from(SubSeq(value, 5, 8))
         IN  IF ~chunk_type.ok THEN chunk_type
             ELSE IF ~U32Le(length, Len(value) - 8) THEN Err("UnexpectedEof")
             ELSE IF ~CanRead(value, 8 + length[2], 4) THEN Err("UnexpectedEof")
             ELSE LET data == SubSeq(value, 9, 8 + length[2])
                      crc == from_be_bytes(SubSeq(value, 9 + length[2], 12 + length[2]))
                      c == Chunk_new(chunk_type.val, data)
                  IN  IF c.crc # crc THEN Err("invalid chunk CRC") ELSE Ok(c)

\* ------------------------------------------------------ chunk state machine

RuSt == <<82, 117, 83, 116>>

\* "This is where your secret message will be!" (the tests' payload).
TestMessage ==
    <<84, 104, 105, 115, 32, 105, 115, 32, 119, 104, 101, 114, 101, 32, 121,
      111, 117, 114, 32, 115, 101, 99, 114, 101, 116, 32, 109, 101, 115, 115,
      97, 103, 101, 32, 119, 105, 108, 108, 32, 98, 101, 33>>

\* "RuSt", "AzAz" and the rejected "Ru1t".
ChunkTexts == {RuSt, <<65, 122, 65, 122>>, <<82, 117, 49, 116>>}

DataBytes == {0, 255}

Payloads == SeqsUpTo(DataBytes, MaxData) \cup {TestMessage}

NoEdit == [flip |-> <<>>, cut |-> FALSE, crc |-> FALSE]

TypeIdle ==
    /\ t_in = <<>>
    /\ t_via = "none"
    /\ t_res = None
    /\ t_flags = None

InitChunk ==
    /\ TypeIdle
    /\ ChunkIdle
    /\ PngIdle

\* ChunkType::from_str(text) then Chunk::new(chunk_type, data), as encode does.
New ==
    /\ pc = "start"
    /\ \E text \in ChunkTexts, data \in Payloads :
          LET chunk_type == ChunkType_from_str(text)
          IN  /\ chunk_type.ok
              /\ chunk' = Chunk_new(chunk_type.val, data)
    /\ pc' = "built"
    /\ UNCHANGED <<bytes, edit, parsed, t_vars, p_vars>>

AsBytes ==
    /\ pc = "built"
    /\ bytes' = as_bytes(chunk)
    /\ edit' = NoEdit
    /\ pc' = "wire"
    /\ UNCHANGED <<chunk, parsed, t_vars, p_vars>>

\* One bit of the buffer is inverted: byte i (1-based), bit k.
FlipBit ==
    /\ pc = "wire"
    /\ edit = NoEdit
    /\ Len(chunk.data) <= MaxData
    /\ \E i \in 1..Len(bytes), k \in 0..7 :
          /\ bytes' = [bytes EXCEPT ![i] = BitXor(@, Pow2(k))]
          /\ edit' = [edit EXCEPT !.flip = <<i, k>>]
    /\ UNCHANGED <<pc, chunk, parsed, t_vars, p_vars>>

\* The buffer ends early.
Truncate ==
    /\ pc = "wire"
    /\ ~edit.cut
    /\ ~edit.crc
    /\ Len(chunk.data) <= MaxData
    /\ \E n \in 0..(Len(bytes) - 1) : bytes' = SubSeq(bytes, 1, n)
    /\ edit' = [edit EXCEPT !.cut = TRUE]
    /\ UNCHANGED <<pc, chunk, parsed, t_vars, p_vars>>

\* The stored checksum is replaced by a neighbouring value, as
\* test_invalid_chunk_from_bytes does (2882656334 -> 2882656333).
CorruptCrc ==
    /\ pc = "wire"
    /\ edit = NoEdit
    /\ \E stored \in {U32Xor(chunk.crc, <<0, 1>>), U32Xor(chunk.crc, <<32768, 0>>)} :
          bytes' = SubSeq(bytes, 1, Len(bytes) - 4) \o to_be_bytes(stored)
    /\ edit' = [edit EXCEPT !.crc = TRUE]
    /\ UNCHANGED <<pc, chunk, parsed, t_vars, p_vars>>

TryFrom ==
    /\ pc = "wire"
    /\ parsed' = Chunk_try_from(bytes)
    /\ pc' = "parsed"
    /\ UNCHANGED <<chunk, bytes, edit, t_vars, p_vars>>

NextChunk == New \/ AsBytes \/ FlipBit \/ Truncate \/ CorruptCrc \/ TryFrom

SpecChunk == InitChunk /\ [][NextChunk]_vars

\* ------------------------------------------------------------------ Png
\* The container is an ordered sequence of Chunk records.

append_chunk(cs, c) == Append(cs, c)

\* Index of the first record whose type code's text equals type_text, 0 if
\* none.  The text is validated as a type code first.
position(cs, type_text) ==
    LET chunk_type == ChunkType_from_str(type_text)
        hits == {i \in 1..Len(cs) : chunk_type.ok /\ cs[i].chunk_type = chunk_type.val}
    IN  IF hits = {} THEN 0 ELSE CHOOSE i \in hits : \A j \in hits : i <= j

\* A scan that stops one record short of the end.
chunk_by_type_skip_last(cs, type_text) ==
    LET i == position(SubSeq(cs, 1, Len(cs) - 1), type_text)
    IN  IF i = 0 THEN None ELSE [some |-> cs[i]]

chunk_by_type(cs, type_text) ==
    LET i == position(cs, type_text)
    IN  IF i = 0 THEN None ELSE [some |-> cs[i]]

\* Removal that moves the last record into the freed place (Vec::swap_remove).
remove_chunk_swap(cs, type_text) ==
    LET i == position(cs, type_text)
    IN  IF i = 0 THEN [chunks |-> cs, ret |-> Err("NotFound")]
        ELSE [chunks |-> SubSeq([cs EXCEPT ![i] = cs[Len(cs)]], 1, Len(cs) - 1),
              ret |-> Ok(<<>>)]

remove_chunk(cs, type_text) ==
    LET i == position(cs, type_text)
    IN  IF i = 0 THEN [chunks |-> cs, ret |-> Err("NotFound")]
        ELSE [chunks |-> SubSeq(cs, 1, i - 1) \o SubSeq(cs, i + 1, Len(cs)),
              ret |-> Ok(<<>>)]

\* Chunk::data_as_string
data_as_string(c) == IF from_utf8_ok(c.data) THEN Ok(c.data) ELSE Err("FromUtf8Error")

\* -------------------------------------------------- container state machine
\* The file at file_path is the container: Png::from_file reads it and
\* Png::to_file writes it back.

Messages == {<<0>>, <<255>>}

PngChunks == {Chunk_new(text, data) : text \in {t \in ChunkTexts : ChunkType_from_str(t).ok},
                                       data \in Messages}

InitPng ==
    /\ TypeIdle
    /\ ChunkIdle
    /\ chunks \in SeqsUpTo(PngChunks, MaxChunks)
    /\ last = None
    /\ scen = <<>>

\* lib.rs encode: from_str(chunk_type)?, Chunk::new, append_chunk, to_file.
encode ==
    /\ Len(chunks) < MaxChunks
    /\ \E text \in ChunkTexts, message \in Messages :
          LET chunk_type == ChunkType_from_str(text)
          IN  IF ~chunk_type.ok
              THEN /\ last' = [op |-> "encode", arg |-> text, before |-> chunks,
                               ret |-> chunk_type]
                   /\ scen' = <<>>
                   /\ UNCHANGED chunks
              ELSE LET c == Chunk_new(chunk_type.val, message)
                   IN  /\ chunks' = append_chunk(chunks, c)
                       /\ last' = [op |-> "encode", arg |-> text, before |-> chunks,
                                   ret |-> Ok(c)]
                       /\ scen' = <<last'>>
    /\ UNCHANGED <<t_vars, c_vars>>

\* lib.rs decode: chunk_by_type(chunk_type).ok_or("chunk not found")?, then
\* prints data_as_string()?.
decode ==
    /\ \E text \in ChunkTexts :
          LET found == chunk_by_type(chunks, text)
          IN  /\ last' = [op |-> "decode", arg |-> text, before |-> chunks,
                          found |-> found,
                          ret |-> IF found = None THEN Err("chunk not found")
                                  ELSE data_as_string(found.some)]
              /\ scen' = IF Len(scen) \in {1, 3} /\ text = scen[1].arg
                         THEN Append(scen, last')
                         ELSE <<>>
    /\ UNCHANGED <<chunks, t_vars, c_vars>>

\* lib.rs remove: remove_chunk(chunk_type)?, then to_file.
remove ==
    /\ \E text \in ChunkTexts :
          LET r == remove_chunk(chunks, text)
          IN  /\ chunks' = r.chunks
              /\ last' = [op |-> "remove", arg |-> text, before |-> chunks, ret |-> r.ret]
              /\ scen' = IF Len(scen) = 2 /\ text = scen[1].arg
                         THEN Append(scen, last')
                         ELSE <<>>
    /\ UNCHANGED <<t_vars, c_vars>>

NextPng == encode \/ decode \/ remove

SpecPng == InitPng /\ [][NextPng]_vars

\* ------------------------------------------------- claims on the chunk type

IsLetterByte(b) == b \in (65..90) \cup (97..122)

Bit5Clear(b) == (b \div 32) % 2 = 0

\* C5: a ChunkType constructor succeeds exactly when its input is 4 bytes long
\* and every byte is an ASCII letter (any case mix); try_from([u8; 4]) and
\* from_str accept the same 4-byte inputs, and the value built has bytes()
\* equal to the input bytes.
TypeCodeValidation ==
    /\ t_via # "none" =>
          /\ t_res.ok <=> (Len(t_in) = 4 /\ \A i \in 1..Len(t_in) : IsLetterByte(t_in[i]))
          /\ t_res.ok => t_res.val = t_in
    /\ t_via = "try_from" =>
          /\ t_res.ok <=> (from_utf8_ok(t_in) /\ ChunkType_from_str(t_in).ok)
          /\ t_res.ok => t_res.val = ChunkType_from_str(t_in).val
    /\ (t_via = "from_str" /\ Len(t_in) = 4) =>
          /\ t_res.ok <=> ChunkType_try_from(t_in).ok
          /\ t_res.ok => t_res.val = ChunkType_try_from(t_in).val
    /\ t_flags # None => t_flags.bytes = t_in

\* A mixed-case all-letter input accepted by from_str and queried.
TypeCodeValidationWitness ==
    /\ t_via = "from_str"
    /\ t_in = <<65, 122, 122, 65>>
    /\ t_res.ok
    /\ t_flags # None

\* C6: is_critical, is_public and is_reserved_bit_valid hold exactly when bit
\* 0x20 of byte 0, 1, 2 is clear, is_safe_to_copy exactly when bit 0x20 of
\* byte 3 is set, and is_valid equals is_reserved_bit_valid.
PropertyFlags ==
    t_flags # None =>
        /\ t_flags.critical = Bit5Clear(t_in[1])
        /\ t_flags.public = Bit5Clear(t_in[2])
        /\ t_flags.reserved_bit_valid = Bit5Clear(t_in[3])
        /\ t_flags.safe_to_copy = ~Bit5Clear(t_in[4])
        /\ t_flags.valid = t_flags.reserved_bit_valid

\* "Azzz": critical, private, reserved bit invalid, safe to copy.
PropertyFlagsWitness ==
    /\ t_flags # None
    /\ t_in = <<65, 122, 122, 122>>
    /\ t_flags.critical
    /\ ~t_flags.public
    /\ ~t_flags.valid
    /\ t_flags.safe_to_copy

\* ----------------------------------------------- claims on the chunk record

\* The failure kinds of the specification, as the errors the code returns:
\* io::ErrorKind::UnexpectedEof from read_exact, Utf8Error or "invalid chunk
\* type" from ChunkType::try_from, "invalid chunk CRC" from Chunk::try_from.
Truncated == Err("UnexpectedEof")
InvalidTypeCode == {Err("Utf8Error"), Err("invalid chunk type")}
ChecksumMismatch == Err("invalid chunk CRC")

\* The fields of a buffer, read off its bytes.
LengthField(b) == b[3] * 256 + b[4]
TypeField(b) == SubSeq(b, 5, 8)
TypeFieldOk(b) == \A i \in 5..8 : IsLetterByte(b[i])
PayloadField(b) == SubSeq(b, 9, 8 + LengthField(b))
ChecksumField(b) ==
    <<b[9 + LengthField(b)] * 256 + b[10 + LengthField(b)],
      b[11 + LengthField(b)] * 256 + b[12 + LengthField(b)]>>
\* The buffer has room for the payload its length field announces and the checksum.
RoomForRecord(b) ==
    /\ Len(b) >= 12
    /\ b[1] = 0
    /\ b[2] = 0
    /\ LengthField(b) + 12 <= Len(b)

\* C1: parsing the serialized form of a record built by Chunk::new succeeds
\* and returns a record with the same length, chunk type, data and crc.
RecordRoundTrip ==
    (pc = "parsed" /\ edit = NoEdit) =>
        /\ parsed.ok
        /\ parsed.val.length = chunk.length
        /\ parsed.val.chunk_type = chunk.chunk_type
        /\ parsed.val.data = chunk.data
        /\ parsed.val.crc = chunk.crc

RecordRoundTripWitness ==
    /\ pc = "parsed"
    /\ edit = NoEdit
    /\ parsed.ok
    /\ Len(chunk.data) = 2

WellFormed(c) ==
    /\ c.length = <<0, Len(c.data)>>
    /\ c.crc = checksum(c.chunk_type \o c.data)

\* C2: every Chunk, from Chunk::new or from a successful Chunk::try_from, has
\* length equal to the number of payload bytes and crc equal to the
\* CRC-32/ISO-HDLC of the type-code bytes followed by the payload bytes
\* ("RuSt" with the tests' 42-byte message: length 42, crc 2882656334).
RecordInvariant ==
    /\ chunk # None => WellFormed(chunk)
    /\ (pc = "parsed" /\ parsed.ok) => WellFormed(parsed.val)
    /\ (chunk # None /\ chunk.chunk_type = RuSt /\ chunk.data = TestMessage) =>
          /\ chunk.length = <<0, 42>>
          /\ chunk.crc = <<43985, 55374>>

RecordInvariantWitness ==
    /\ pc = "parsed"
    /\ parsed.ok
    /\ parsed.val.chunk_type = RuSt
    /\ parsed.val.data = TestMessage
    /\ parsed.val.crc = <<43985, 55374>>

\* C3: a buffer holding a complete record (length, valid type code, payload,
\* checksum) parses to ChecksumMismatch when the stored checksum differs from
\* the CRC of type code and payload, and to the record when they are equal.
ChecksumRejection ==
    (pc = "parsed" /\ RoomForRecord(bytes) /\ TypeFieldOk(bytes)) =>
        IF ChecksumField(bytes) # checksum(TypeField(bytes) \o PayloadField(bytes))
        THEN parsed = ChecksumMismatch
        ELSE parsed = Ok([length |-> <<0, LengthField(bytes)>>,
                          chunk_type |-> TypeField(bytes),
                          data |-> PayloadField(bytes),
                          crc |-> ChecksumField(bytes)])

\* test_invalid_chunk_from_bytes: the tests' record with its checksum off by one.
ChecksumRejectionWitness ==
    /\ pc = "parsed"
    /\ edit.crc
    /\ chunk.data = TestMessage
    /\ ChecksumField(bytes) = <<43985, 55375>>
    /\ parsed = ChecksumMismatch

FlipIn(lo, hi) ==
    /\ pc = "parsed"
    /\ edit.flip # <<>>
    /\ ~edit.cut
    /\ edit.flip[1] >= lo
    /\ edit.flip[1] <= hi

\* C4 as stated: one flipped bit in the type-code region (bytes 4..8) or the
\* payload region of a serialized record makes parsing fail with
\* ChecksumMismatch.
ChecksumSensitivityAsStated ==
    FlipIn(5, 8 + Len(chunk.data)) => parsed = ChecksumMismatch

\* C4, amended: one flipped bit in the payload region makes parsing fail with
\* ChecksumMismatch; one flipped bit in the type-code region makes it fail
\* with ChecksumMismatch when the four bytes are still ASCII letters, and with
\* the type code's own failure otherwise.
ChecksumSensitivity ==
    /\ FlipIn(9, 8 + Len(chunk.data)) => parsed = ChecksumMismatch
    /\ FlipIn(5, 8) =>
          IF TypeFieldOk(bytes)
          THEN parsed = ChecksumMismatch
          ELSE parsed \in InvalidTypeCode

\* "RuSt" read back as "RUSt": still a type code, caught by the checksum.
ChecksumSensitivityWitness ==
    /\ FlipIn(5, 8)
    /\ chunk.chunk_type = RuSt
    /\ TypeField(bytes) = <<82, 85, 83, 116>>
    /\ parsed = ChecksumMismatch

\* C7: as_bytes() is the 4-byte big-endian length, the 4 type-code bytes, the
\* payload bytes and the 4-byte big-endian checksum, length + 12 bytes in all.
WireLayout ==
    (pc \in {"wire", "parsed"} /\ edit = NoEdit) =>
        /\ Len(bytes) = Len(chunk.data) + 12
        /\ bytes[1] = 0
        /\ bytes[2] = 0
        /\ LengthField(bytes) = Len(chunk.data)
        /\ TypeField(bytes) = chunk.chunk_type
        /\ PayloadField(bytes) = chunk.data
        /\ ChecksumField(bytes) = chunk.crc

WireLayoutWitness ==
    /\ pc = "wire"
    /\ edit = NoEdit
    /\ chunk.data = <<0, 255>>
    /\ Len(bytes) = 14

\* C10: the fields are read in the order length, type code, payload,
\* checksum and the first that cannot be read or validated decides: a buffer
\* too short for length and type code fails with Truncated, then an invalid
\* type code fails as such, then a buffer too short for the payload or the
\* checksum fails with Truncated; none yields a record.
Truncation ==
    pc = "parsed" =>
        /\ Len(bytes) < 8 => parsed = Truncated
        /\ (Len(bytes) >= 8 /\ ~TypeFieldOk(bytes)) => parsed \in InvalidTypeCode
        /\ (Len(bytes) >= 8 /\ TypeFieldOk(bytes) /\ ~RoomForRecord(bytes)) =>
              parsed = Truncated

\* A record of two payload bytes cut inside its payload.
TruncationWitness ==
    /\ pc = "parsed"
    /\ edit.cut
    /\ edit.flip = <<>>
    /\ Len(chunk.data) = 2
    /\ Len(bytes) = 9
    /\ parsed = Truncated

\* -------------------------------------------------- claims on the container

Matches(cs, text) == {i \in 1..Len(cs) : cs[i].chunk_type = text}

Without(cs, i) == [j \in 1..(Len(cs) - 1) |-> IF j < i THEN cs[j] ELSE cs[j + 1]]

\* C8: remove_chunk(type_text) removes exactly the first record whose type
\* text equals type_text and leaves the others in their order; when no record
\* matches (also when type_text is no type code) it fails with NotFound and
\* the records are unchanged.
ContainerRemoval ==
    (last # None /\ last.op = "remove") =>
        LET hits == Matches(last.before, last.arg)
        IN  IF hits = {}
            THEN /\ last.ret = Err("NotFound")
                 /\ chunks = last.before
            ELSE /\ last.ret.ok
                 /\ \E i \in hits :
                       /\ \A j \in hits : i <= j
                       /\ chunks = Without(last.before, i)

\* Two records of the type, another between them: the first one goes.
ContainerRemovalWitness ==
    /\ last # None
    /\ last.op = "remove"
    /\ Len(last.before) = 3
    /\ Matches(last.before, last.arg) = {1, 3}
    /\ last.before[1] # last.before[3]
    /\ chunks = <<last.before[2], last.before[3]>>

\* C9 as stated: from any container, after append_chunk(r) chunk_by_type with
\* r's type text returns r; after remove_chunk with that text chunk_by_type
\* returns absent and the other records keep their order.
AppendLookupRemoveAsStated ==
    /\ Len(scen) >= 2 => scen[2].found = [some |-> scen[1].ret.val]
    /\ Len(scen) >= 3 => scen[3].ret.ok
    /\ Len(scen) = 4 =>
          /\ scen[4].found = None
          /\ \E i \in 1..Len(scen[3].before) : chunks = Without(scen[3].before, i)

\* C9, amended: from a container that holds no record of r's type, after
\* append_chunk(r) chunk_by_type with r's type text returns r; after
\* remove_chunk with that text chunk_by_type returns absent and the records
\* are those from before the append, in their order.
AppendLookupRemove ==
    (Len(scen) >= 1 /\ Matches(scen[1].before, scen[1].arg) = {}) =>
        /\ Len(scen) >= 2 => scen[2].found = [some |-> scen[1].ret.val]
        /\ Len(scen) >= 3 =>
              /\ scen[3].ret.ok
              /\ chunks = scen[1].before
        /\ Len(scen) = 4 => scen[4].found = None

AppendLookupRemoveWitness ==
    /\ Len(scen) = 4
    /\ Len(scen[1].before) = 2
    /\ Matches(scen[1].before, scen[1].arg) = {}
    /\ scen[4].found = None

====
